---- MODULE Spec2Model ----
(***************************************************************************)
(* Model of naima.py: the collector loop (collector_thread), the power     *)
(* estimator (estimate_power), the sample stores (carbon_live.db and       *)
(* carbon_sim_5days.db) and the two query handlers (/api/data and          *)
(* /api/summary).                                                          *)
(*                                                                         *)
(* Units.  Python floats are modelled by scaled integers:                  *)
(*   time    one tick = 1/TICKS_PER_SECOND s (the 0.5 s that cpu_percent   *)
(*           blocks for); time.time() returns ticks                        *)
(*   power   0.01 W  (the coefficients 0.25 and 0.08 are whole in it)      *)
(*   energy  0.01 W * 1 tick = 1/EnergyPerWh Wh, so that                   *)
(*           power_W * dt_h is power * ticks with no division              *)
(* A nullable value (Python None, SQL NULL) is a sequence of length <= 1:  *)
(* None is <<>> and Some(x) is <<x>>.                                      *)
(***************************************************************************)
EXTENDS Integers, Sequences, FiniteSets, TLC

\* ------------------------------------------------------------- bounds
\* Iterations one collector run may start.
MaxSamples == 2
\* Longest stall (ticks) of the sensor reads of one iteration on top of the
\* 0.5 s that cpu_percent blocks for.
MaxStall == 4
\* Largest backward step (ticks) of the system clock (NTP correction, manual
\* change, end of DST).
MaxBack == 6
\* The reading of the system clock (ticks) when the process starts.
InitClock == 20

\* ---------------------------------------------------------- constants
TICKS_PER_SECOND == 2
CPU_INTERVAL_TICKS == 1
SAMPLE_INTERVAL_SECONDS == 2
BATTERY_WH_CAPACITY == 50
DEFAULT_BRIGHTNESS == 60
CPU_POWER_COEFF_x100 == 25
BRIGHTNESS_POWER_COEFF_x100 == 8
BASE_POWER_W == 8

SAMPLE_INTERVAL_TICKS == SAMPLE_INTERVAL_SECONDS * TICKS_PER_SECOND
TicksPerHour == 3600 * TICKS_PER_SECOND
\* Energy units in one Wh: power is in 0.01 W and time in ticks.
EnergyPerWh == 100 * TicksPerHour

\* ------------------------------------------------------------ helpers
None == <<>>
Some(x) == <<x>>
\* Python's "x or 0" on a nullable number.
OrZero(o) == IF o = None THEN 0 ELSE o[1]
Max(a, b) == IF a >= b THEN a ELSE b

\* ------------------------------------------------------ sensor inputs
CpuValues == {0, 100}
\* What sbc.get_brightness() gives: None when the module is missing or the
\* call raises.
BrightnessReadings == {None, Some(0)}
\* psutil.sensors_battery(): None, or (percent, power_plugged).
BatteryReadings ==
    {None, Some([percent |-> 80, power_plugged |-> FALSE]),
           Some([percent |-> 78, power_plugged |-> FALSE]),
           Some([percent |-> 78, power_plugged |-> TRUE])}
WorkTicks == {CPU_INTERVAL_TICKS, CPU_INTERVAL_TICKS + MaxStall}
\* Backward steps of the system clock: within a sample interval, a whole
\* interval, and the largest.
BackSteps == {1, SAMPLE_INTERVAL_TICKS, MaxBack}

VARIABLES
    wall,        \* the system clock: what time.time() and datetime.now() read
    clockSteps,  \* whether the system clock has been set back (one step a behaviour)
    storeOK,     \* whether carbon_live.db accepts writes
    live,        \* committed rows of carbon_live.db, table samples
    txn,         \* the collector connection's uncommitted INSERT
    appended,    \* history: the samples in the order their commits returned
    col,         \* collector_thread's position and locals
    sim,         \* rows of carbon_sim_5days.db, table samples
    simLog,      \* history: the samples of sim in the order they were inserted
    req          \* the request handlers' positions and locals

vars == <<wall, clockSteps, storeOK, live, txn, appended, col, sim, simLog, req>>

\* ------------------------------------------------------------- clocks
\* datetime.now().isoformat(timespec="seconds"): the sub-second part is cut.
\* ISO strings of one width compare as the seconds they stand for.
IsoSeconds(w) == w \div TICKS_PER_SECOND

\* get_brightness(): the reading, or the default when there is none.
get_brightness(reading) ==
    IF reading = None THEN DEFAULT_BRIGHTNESS ELSE reading[1]

\* ---------------------------------------------------- estimate_power
PowerLinear(cpu_util, brightness) ==
    100 * BASE_POWER_W + CPU_POWER_COEFF_x100 * cpu_util
        + BRIGHTNESS_POWER_COEFF_x100 * brightness

\* A variant that takes the percent's change as current minus last.
PowerBattery_rise(d_percent, dt) ==
    (BATTERY_WH_CAPACITY * (0 - d_percent) * TicksPerHour) \div dt

\* energy_used_Wh / dt_h in 0.01 W, for a drop of d_percent over dt ticks
\* (the quotient is cut to the 0.01 W of the model).
PowerBattery(d_percent, dt) ==
    (BATTERY_WH_CAPACITY * d_percent * TicksPerHour) \div dt

\* A variant that takes "<=" for "<" in the discharge test.
estimate_power_le(cpu_util, brightness, batt, last_batt_percent, last_ts, now) ==
    IF /\ batt # None
       /\ ~batt[1].power_plugged
       /\ last_batt_percent # None
       /\ last_ts # None
       /\ batt[1].percent <= last_batt_percent[1]
       /\ now - last_ts[1] > 0
    THEN PowerBattery(last_batt_percent[1] - batt[1].percent, now - last_ts[1])
    ELSE PowerLinear(cpu_util, brightness)

\* A variant that takes a missing last percent for a full battery.
estimate_power_full(cpu_util, brightness, batt, last_batt_percent, last_ts, now) ==
    LET last == IF last_batt_percent # None THEN last_batt_percent[1] ELSE 100
    IN  IF /\ batt # None
           /\ ~batt[1].power_plugged
           /\ last_ts # None
           /\ batt[1].percent < last
           /\ now - last_ts[1] > 0
        THEN PowerBattery(last - batt[1].percent, now - last_ts[1])
        ELSE PowerLinear(cpu_util, brightness)

\* now is the time.time() read on entry.
estimate_power(cpu_util, brightness, batt, last_batt_percent, last_ts, now) ==
    LET power_linear == PowerLinear(cpu_util, brightness)
        battery_based_power ==
            IF batt # None /\ ~batt[1].power_plugged
            THEN IF /\ last_batt_percent # None
                    /\ last_ts # None
                    /\ batt[1].percent < last_batt_percent[1]
                 THEN LET dt == now - last_ts[1]
                      IN  IF dt > 0
                          THEN Some(PowerBattery(
                                   last_batt_percent[1] - batt[1].percent, dt))
                          ELSE None
                 ELSE None
            ELSE None
    IN  IF battery_based_power # None THEN battery_based_power[1]
        ELSE power_linear

\* ------------------------------------------------------ sample store
\* A table is a set of rows; AUTOINCREMENT gives a new row the next id.
NextId(table) ==
    IF table = {} THEN 1
    ELSE 1 + (CHOOSE i \in {r.id : r \in table} :
                 \A j \in {r.id : r \in table} : j <= i)

Sample(ts, cpu, bright, battp, plug, power, energy) ==
    [timestamp |-> ts, cpu_util |-> cpu, brightness |-> bright,
     battery_percent |-> battp, is_plugged |-> plug, power_W |-> power,
     energy_Wh_cum |-> energy]

WithId(s, i) ==
    [id |-> i, timestamp |-> s.timestamp, cpu_util |-> s.cpu_util,
     brightness |-> s.brightness, battery_percent |-> s.battery_percent,
     is_plugged |-> s.is_plugged, power_W |-> s.power_W,
     energy_Wh_cum |-> s.energy_Wh_cum]

\* The columns the SELECTs name: the row without its id.
Columns(r) ==
    Sample(r.timestamp, r.cpu_util, r.brightness, r.battery_percent,
           r.is_plugged, r.power_W, r.energy_Wh_cum)

\* A variant that keeps one row per timestamp (INSERT OR REPLACE under a
\* unique timestamp).
InsertRow_replace(table, s) ==
    {r \in table : r.timestamp # s.timestamp} \cup {WithId(s, NextId(table))}

\* INSERT INTO samples (...) VALUES (...).
InsertRow(table, s) == table \cup {WithId(s, NextId(table))}

\* -------------------------------------------------- collector_thread
InitCol ==
    [pc |-> "start", run |-> 1, iter |-> 0, start |-> 0, now_dt |-> 0, cpu_util |-> 0,
     batt |-> None, batt_percent |-> None, is_plugged |-> 0, brightness |-> 0,
     now |-> 0, power_W |-> 0, now_ts |-> 0,
     last_ts |-> None, last_batt_percent |-> None, energy_cum_Wh |-> 0]

\* Readers of carbon_live.db between their SELECT and their fetchall(): each
\* holds SQLite's SHARED lock.
Readers == {r \in DOMAIN req : req[r].pc = "fetch" /\ req[r].mode = "live"}

\* Lines 112-113: start = time.time(); now_dt = datetime.now() to the second.
\* The run is followed for max iterations.
Iter_Start(max) ==
    /\ col.pc = "start"
    /\ col.iter < max
    /\ col' = [col EXCEPT !.pc = "sense", !.iter = @ + 1, !.start = wall,
                           !.now_dt = IsoSeconds(wall)]
    /\ UNCHANGED <<wall, clockSteps, storeOK, live, txn, appended, sim, simLog, req>>

\* Lines 115-119: the sensor reads; cpu_percent(interval=0.5) blocks.
Iter_Sense(cpus, batts, brights, works) ==
    /\ col.pc = "sense"
    /\ \E cpu \in cpus, b \in batts, br \in brights, d \in works :
          /\ wall' = wall + d
          /\ col' = [col EXCEPT
                       !.pc = "estimate",
                       !.cpu_util = cpu,
                       !.batt = b,
                       !.batt_percent = IF b # None THEN Some(b[1].percent) ELSE None,
                       !.is_plugged = IF b # None /\ b[1].power_plugged THEN 1 ELSE 0,
                       !.brightness = get_brightness(br)]
    /\ UNCHANGED <<clockSteps, storeOK, live, txn, appended, sim, simLog, req>>

\* Line 121: power_W = estimate_power(...), which reads time.time() itself.
Iter_Estimate ==
    /\ col.pc = "estimate"
    /\ col' = [col EXCEPT
                 !.pc = "integrate",
                 !.now = wall,
                 !.power_W = estimate_power(col.cpu_util, col.brightness, col.batt,
                                 col.last_batt_percent, col.last_ts, wall)]
    /\ UNCHANGED <<wall, clockSteps, storeOK, live, txn, appended, sim, simLog, req>>

\* Lines 124-126: "if last_ts and power_W" is Python truthiness: None and
\* 0.0 are both false.
Integrate(energy, last_ts, power_W, now_ts) ==
    IF last_ts # None /\ last_ts[1] # 0 /\ power_W # 0
    THEN energy + power_W * (now_ts - last_ts[1])
    ELSE energy

\* Lines 123-126.
Iter_Integrate ==
    /\ col.pc = "integrate"
    /\ col' = [col EXCEPT
                 !.pc = "insert",
                 !.now_ts = wall,
                 !.energy_cum_Wh = Integrate(col.energy_cum_Wh, col.last_ts,
                                             col.power_W, wall)]
    /\ UNCHANGED <<wall, clockSteps, storeOK, live, txn, appended, sim, simLog, req>>

\* The tuple bound to the INSERT at line 132.
CurrentSample ==
    Sample(col.now_dt, Some(col.cpu_util), Some(col.brightness), col.batt_percent,
           col.is_plugged, Some(col.power_W), Some(col.energy_cum_Wh))

\* Lines 128-133: cur.execute(INSERT ...).  The row stays in the connection's
\* open transaction.  There is no try/except in the loop: an exception raised
\* here ends the thread.
Iter_Insert ==
    /\ col.pc = "insert"
    /\ IF storeOK
       THEN /\ txn' = Some(CurrentSample)
            /\ col' = [col EXCEPT !.pc = "commit"]
       ELSE /\ txn' = None
            /\ col' = [col EXCEPT !.pc = "crashed"]
    /\ UNCHANGED <<wall, clockSteps, storeOK, live, appended, sim, simLog, req>>

\* Line 134: conn.commit().  The commit needs SQLite's EXCLUSIVE lock: while a
\* reader holds SHARED it waits, and raises "database is locked" when the
\* connection's busy timeout runs out.
Iter_Commit ==
    /\ col.pc = "commit"
    /\ IF storeOK /\ Readers = {}
       THEN /\ live' = InsertRow(live, txn[1])
            /\ appended' = Append(appended, txn[1])
            /\ col' = [col EXCEPT !.pc = "sleep"]
       ELSE /\ UNCHANGED <<live, appended>>
            /\ col' = [col EXCEPT !.pc = "crashed"]
    /\ txn' = None
    /\ UNCHANGED <<wall, clockSteps, storeOK, sim, simLog, req>>

\* Lines 136-137: the carried state, then
\* time.sleep(max(0, SAMPLE_INTERVAL_SECONDS - (time.time() - start))).
\* The locals the next iteration assigns before it reads them are returned to
\* their initial values, but for start, which holds the iteration's start
\* time until line 112 assigns the next.
SleepTicks(start, end) == Max(0, SAMPLE_INTERVAL_TICKS - (end - start))

\* A variant that keeps the last percent while the battery is absent.
Iter_Sleep_keep ==
    /\ col.pc = "sleep"
    /\ col' = [InitCol EXCEPT !.run = col.run,
                               !.iter = col.iter,
                               !.start = col.start,
                               !.last_ts = Some(col.now_ts),
                               !.last_batt_percent =
                                   IF col.batt # None THEN col.batt_percent
                                   ELSE col.last_batt_percent,
                               !.energy_cum_Wh = col.energy_cum_Wh]
    /\ wall' = wall + SleepTicks(col.start, wall)
    /\ UNCHANGED <<clockSteps, storeOK, live, txn, appended, sim, simLog, req>>

Iter_Sleep ==
    /\ col.pc = "sleep"
    /\ col' = [InitCol EXCEPT !.run = col.run,
                               !.iter = col.iter,
                               !.start = col.start,
                               !.last_ts = Some(col.now_ts),
                               !.last_batt_percent = col.batt_percent,
                               !.energy_cum_Wh = col.energy_cum_Wh]
    /\ wall' = wall + SleepTicks(col.start, wall)
    /\ UNCHANGED <<clockSteps, storeOK, live, txn, appended, sim, simLog, req>>

\* --------------------------------------------------------- environment
\* The system clock is set back (time.time() and datetime.now() read the
\* wall clock, not a monotonic one): by one of the steps, or to the epoch,
\* where time.time() is 0.0.
ClockStep ==
    /\ ~clockSteps
    /\ \E s \in BackSteps \cup {wall} :
          /\ s > 0
          /\ wall - s >= 0
          /\ wall' = wall - s
    /\ clockSteps' = TRUE
    /\ UNCHANGED <<storeOK, live, txn, appended, col, sim, simLog, req>>

\* The live database stops accepting writes (disk full, I/O error, file
\* locked by another process) and accepts them again.
StoreFault ==
    /\ storeOK
    /\ storeOK' = FALSE
    /\ UNCHANGED <<wall, clockSteps, live, txn, appended, col, sim, simLog, req>>

StoreRecover ==
    /\ ~storeOK
    /\ storeOK' = TRUE
    /\ UNCHANGED <<wall, clockSteps, live, txn, appended, col, sim, simLog, req>>

\* ----------------------------------------------------------- requests
\* Concurrent request handlers.
MaxRequests == 1
ReqIds == 1..MaxRequests
IdleReq == [pc |-> "idle"]

\* A query-string parameter: absent, text, or (for minutes) text that int()
\* accepts, with its value.
Absent == [kind |-> "absent"]
Text(t) == [kind |-> "text", value |-> t]
NonInt == [kind |-> "nonint"]
IntText(n) == [kind |-> "int", value |-> n]
\* The largest minutes for which datetime.now() - timedelta(minutes=minutes)
\* is still a date (year 1 is the earliest): about 2025.8 years.
MaxWindowMinutes == 1065000000
\* The query strings of the requests to the serving process: the live store
\* with minutes absent, not a number, negative, zero, and beyond the range of
\* dates; and the default mode.
MinutesArgs ==
    {Absent, NonInt, IntText(0 - 1), IntText(0), IntText(MaxWindowMinutes + 1)}
LiveQueries == ({Text("live")} \X MinutesArgs) \cup {<<Absent, Absent>>}
\* The query strings of the requests for the fixed dataset: every mode but
\* "live", with and without minutes.
SimQueries == {Absent, Text("sim"), Text("demo")} \X {Absent, IntText(0)}

\* request.args.get(key, default): the text, or the default when absent.
ArgGet(arg, default) == IF arg.kind = "absent" THEN default ELSE arg.value

\* request.args.get(key, default, type=int): the default also when int()
\* raises ValueError.
ArgGetInt(arg, default) == IF arg.kind = "int" THEN arg.value ELSE default

RECURSIVE OrderById(_)
OrderById(S) ==
    IF S = {} THEN <<>>
    ELSE LET m == CHOOSE r \in S : \A q \in S : r.id <= q.id
         IN  <<Columns(m)>> \o OrderById(S \ {m})

\* ORDER BY timestamp; rows of one timestamp come out in rowid order (SQL
\* leaves their order open, SQLite's scan and sort keep it).
RECURSIVE OrderByTimestamp(_)
OrderByTimestamp(S) ==
    IF S = {} THEN <<>>
    ELSE LET m == CHOOSE r \in S : \A q \in S :
                     \/ r.timestamp < q.timestamp
                     \/ r.timestamp = q.timestamp /\ r.id <= q.id
         IN  <<Columns(m)>> \o OrderByTimestamp(S \ {m})

\* A variant whose fixed-dataset branch orders by timestamp too.
fetch_samples_by_timestamp(mode, minutes, now) ==
    IF mode = "live"
    THEN IF minutes > MaxWindowMinutes
         THEN [ok |-> FALSE, rows |-> <<>>]
         ELSE [ok |-> TRUE, rows |-> OrderByTimestamp(
                  {r \in live : r.timestamp >= IsoSeconds(now) - 60 * minutes})]
    ELSE [ok |-> TRUE, rows |-> OrderByTimestamp(sim)]

\* fetch_samples(mode, minutes) with datetime.now() = now: the rows, or ok =
\* FALSE when line 147 raises OverflowError (a date before year 1).
fetch_samples(mode, minutes, now) ==
    IF mode = "live"
    THEN IF minutes > MaxWindowMinutes
         THEN [ok |-> FALSE, rows |-> <<>>]
         ELSE LET since == IsoSeconds(now) - 60 * minutes
              IN  [ok |-> TRUE,
                   rows |-> OrderByTimestamp({r \in live : r.timestamp >= since})]
    ELSE [ok |-> TRUE, rows |-> OrderById(sim)]

\* Python's round(n / d, 0) for d > 0: the nearest integer, a tie to the even
\* one.
RoundDiv(n, d) ==
    LET q == n \div d
        rem == n - q * d
    IN  IF 2 * rem < d THEN q
        ELSE IF 2 * rem > d THEN q + 1
        ELSE IF q % 2 = 0 THEN q ELSE q + 1

RECURSIVE SumSeq(_)
SumSeq(xs) == IF xs = <<>> THEN 0 ELSE Head(xs) + SumSeq(Tail(xs))

CO2_PER_KWH_KG_x10 == 7

\* A variant that always takes the difference of the last and the first.
SummaryEnergy_delta(energies) == energies[Len(energies)] - energies[1]

\* Line 215.
SummaryEnergy(energies) ==
    IF Len(energies) > 1 THEN energies[Len(energies)] - energies[1]
    ELSE energies[Len(energies)]

Error500 == [status |-> 500]
Json(body) == [status |-> 200, body |-> body]
ZeroSummary == [energy_Wh |-> 0, avg_power_W |-> 0, avg_cpu |-> 0, co2_kg |-> 0]

\* A variant that takes co2 from the last cumulative energy, not the window's.
Summarize_co2_total(rows) ==
    LET powers == [i \in 1..Len(rows) |-> OrZero(rows[i].power_W)]
        cpus == [i \in 1..Len(rows) |-> OrZero(rows[i].cpu_util)]
        energies == [i \in 1..Len(rows) |-> OrZero(rows[i].energy_Wh_cum)]
        energy_Wh == SummaryEnergy(energies)
    IN  Json([energy_Wh |-> RoundDiv(energy_Wh, EnergyPerWh \div 100),
              avg_power_W |-> RoundDiv(SumSeq(powers), Len(powers)),
              avg_cpu |-> RoundDiv(10 * SumSeq(cpus), Len(cpus)),
              co2_kg |-> RoundDiv(CO2_PER_KWH_KG_x10 * energies[Len(energies)],
                                  10 * EnergyPerWh)])

\* Lines 211-227.  The body's numbers are the rounded decimals scaled to
\* integers: energy_Wh and avg_power_W in 0.01, avg_cpu in 0.1, co2_kg in
\* 0.001.
Summarize(rows) ==
    LET powers == [i \in 1..Len(rows) |-> OrZero(rows[i].power_W)]
        cpus == [i \in 1..Len(rows) |-> OrZero(rows[i].cpu_util)]
        energies == [i \in 1..Len(rows) |-> OrZero(rows[i].energy_Wh_cum)]
        energy_Wh == SummaryEnergy(energies)
    IN  Json([energy_Wh |-> RoundDiv(energy_Wh, EnergyPerWh \div 100),
              avg_power_W |-> RoundDiv(SumSeq(powers), Len(powers)),
              avg_cpu |-> RoundDiv(10 * SumSeq(cpus), Len(cpus)),
              co2_kg |-> RoundDiv(CO2_PER_KWH_KG_x10 * energy_Wh,
                                  10 * EnergyPerWh)])

\* A variant without the test for an empty result: energies[-1] raises.
api_summary_unguarded(rows) ==
    IF rows = <<>> THEN Error500 ELSE Summarize(rows)

\* Lines 203-227: the response of /api/summary for the fetched rows.
api_summary(rows) ==
    IF rows = <<>> THEN Json(ZeroSummary) ELSE Summarize(rows)

\* Lines 182-195: the response of /api/data for the fetched rows.
api_data(rows) ==
    Json([idx \in 1..Len(rows) |->
            [index |-> idx,
             cpu_util |-> rows[idx].cpu_util,
             brightness |-> rows[idx].brightness,
             battery_percent |-> rows[idx].battery_percent,
             is_plugged |-> rows[idx].is_plugged,
             power_W |-> rows[idx].power_W,
             energy_Wh_cum |-> rows[idx].energy_Wh_cum]])

\* Lines 178-181 (199-202) and fetch_samples up to cur.execute: the arguments
\* are read and the SELECT runs; a live reader holds the SHARED lock from here
\* to its fetchall()/close().  An exception in fetch_samples is Flask's 500.
ReqExecute(r, queries) ==
    /\ req[r].pc \in {"idle", "done"}
    /\ \E endpoint \in {"data", "summary"}, q \in queries :
          LET mode == ArgGet(q[1], "sim")
              minutes == ArgGetInt(q[2], 60)
              got == fetch_samples(mode, minutes, wall)
          IN  req' = [req EXCEPT ![r] =
                        IF got.ok
                        THEN [pc |-> "fetch", endpoint |-> endpoint, mode |-> mode,
                              minutes |-> minutes, fetched |-> TRUE,
                              rows |-> got.rows]
                        ELSE [pc |-> "done", endpoint |-> endpoint, mode |-> mode,
                              minutes |-> minutes, fetched |-> FALSE,
                              rows |-> got.rows, response |-> Error500]]
    /\ UNCHANGED <<wall, clockSteps, storeOK, live, txn, appended, col, sim, simLog>>

\* Lines 164-166 and the handler's body: fetchall(), close(), the JSON.
ReqRespond(r) ==
    /\ req[r].pc = "fetch"
    /\ req' = [req EXCEPT ![r] =
                 [pc |-> "done", endpoint |-> req[r].endpoint, mode |-> req[r].mode,
                  minutes |-> req[r].minutes, fetched |-> TRUE, rows |-> req[r].rows,
                  response |-> IF req[r].endpoint = "data"
                               THEN api_data(req[r].rows)
                               ELSE api_summary(req[r].rows)]]
    /\ UNCHANGED <<wall, clockSteps, storeOK, live, txn, appended, col, sim, simLog>>

\* ------------------------------------------------------ specification
\* init_live_db() and the first lines of collector_thread.
Init ==
    /\ wall = InitClock
    /\ clockSteps = FALSE
    /\ storeOK = TRUE
    /\ live = {}
    /\ txn = None
    /\ appended = <<>>
    /\ col = InitCol
    /\ sim = {}
    /\ simLog = <<>>
    /\ req = [r \in ReqIds |-> IdleReq]

collector_thread ==
    \/ Iter_Start(MaxSamples)
    \/ Iter_Sense(CpuValues, BatteryReadings, BrightnessReadings, WorkTicks)
    \/ Iter_Estimate
    \/ Iter_Integrate
    \/ Iter_Insert
    \/ Iter_Commit
    \/ Iter_Sleep

\* The collector under every sensor reading and a system clock that may be
\* set back.
Next ==
    \/ collector_thread
    \/ ClockStep

Spec == Init /\ [][Next]_vars

\* The collector under every sensor reading and a store that stops and
\* resumes accepting writes.
NextFault ==
    \/ collector_thread
    \/ StoreFault
    \/ StoreRecover

SpecFault == Init /\ [][NextFault]_vars

\* ------------------------------------------------ the battery's history
\* The collector over one more iteration, under every battery reading and a
\* system clock that may be set back; the other sensors give one reading.
MaxBatterySamples == 3
BatteryCpu == {0}
BatteryBrightness == {None}
BatteryWork == {CPU_INTERVAL_TICKS}

NextBattery ==
    \/ Iter_Start(MaxBatterySamples)
    \/ Iter_Sense(BatteryCpu, BatteryReadings, BatteryBrightness, BatteryWork)
    \/ Iter_Estimate
    \/ Iter_Integrate
    \/ Iter_Insert
    \/ Iter_Commit
    \/ Iter_Sleep
    \/ ClockStep

SpecBattery == Init /\ [][NextBattery]_vars

\* ---------------------------------------------- the serving process
\* __main__: the collector thread beside the request handlers.  The sensors
\* give one reading here; the rows differ by their timestamp and energy.
LiveCpu == {100}
LiveBattery == {None}
LiveBrightness == {None}
LiveWork == {CPU_INTERVAL_TICKS}

NextLive ==
    \/ Iter_Start(MaxSamples)
    \/ Iter_Sense(LiveCpu, LiveBattery, LiveBrightness, LiveWork)
    \/ Iter_Estimate
    \/ Iter_Integrate
    \/ Iter_Insert
    \/ Iter_Commit
    \/ Iter_Sleep
    \/ ClockStep
    \/ \E r \in ReqIds : ReqExecute(r, LiveQueries)
    \/ \E r \in ReqIds : ReqRespond(r)

\* Each thread that can take a step takes one: the collector thread and the
\* request handlers are scheduled by the operating system.
CollectorStep ==
    \/ Iter_Start(MaxSamples)
    \/ Iter_Sense(LiveCpu, LiveBattery, LiveBrightness, LiveWork)
    \/ Iter_Estimate
    \/ Iter_Integrate
    \/ Iter_Insert
    \/ Iter_Commit
    \/ Iter_Sleep

SpecLive ==
    /\ Init
    /\ [][NextLive]_vars
    /\ WF_vars(CollectorStep)
    /\ \A r \in ReqIds : WF_vars(ReqRespond(r))

\* ------------------------------------------------------------ restarts
\* The process ends (killed, crashed, machine shut down) and is started
\* again: __main__ runs init_live_db(), which keeps the table (CREATE TABLE
\* IF NOT EXISTS), and a new collector_thread begins at lines 107-109.  The
\* uncommitted INSERT and the requests in progress are lost with the
\* process.  col.run numbers the runs.
MaxRestarts == 1
\* The time (ticks) between the end of a run and the start of the next: none,
\* or one sample interval short of a minute.
Downtime == {0, 60 * TICKS_PER_SECOND - SAMPLE_INTERVAL_TICKS}

Restart ==
    /\ col.run <= MaxRestarts
    /\ \E d \in Downtime : wall' = wall + d
    /\ col' = [InitCol EXCEPT !.run = col.run + 1]
    /\ txn' = None
    /\ req' = [r \in ReqIds |-> IdleReq]
    /\ UNCHANGED <<clockSteps, storeOK, live, appended, sim, simLog>>

\* The requests to the restarted process: the live store over the last
\* minute and over the default window.
RestartQueries == {Text("live")} \X {IntText(1), Absent}

NextRestart ==
    \/ Iter_Start(MaxSamples)
    \/ Iter_Sense(LiveCpu, LiveBattery, LiveBrightness, LiveWork)
    \/ Iter_Estimate
    \/ Iter_Integrate
    \/ Iter_Insert
    \/ Iter_Commit
    \/ Iter_Sleep
    \/ Restart
    \/ \E r \in ReqIds : ReqExecute(r, RestartQueries)
    \/ \E r \in ReqIds : ReqRespond(r)

SpecRestart == Init /\ [][NextRestart]_vars

\* --------------------------------------------------- the fixed dataset
\* carbon_sim_5days.db is made before the process starts, by inserting its
\* samples one after the other into a table of the same schema.
MaxSimRows == 3
Wh(x) == x * EnergyPerWh
SimSamples ==
    {Sample(50, Some(40), Some(60), Some(80), 0, Some(2280), Some(Wh(100))),
     Sample(40, Some(10), Some(60), Some(79), 0, Some(1530), Some(Wh(150))),
     Sample(30, Some(90), Some(0), None, 1, Some(3050), Some(Wh(230))),
     Sample(20, None, None, None, 0, None, None),
     Sample(10, Some(25), Some(60), Some(78), 0, Some(1905), Some(9000))}

RECURSIVE LoadAll(_)
LoadAll(log) ==
    IF log = <<>> THEN {}
    ELSE InsertRow(LoadAll(SubSeq(log, 1, Len(log) - 1)), log[Len(log)])

InitSim ==
    /\ wall = InitClock
    /\ clockSteps = FALSE
    /\ storeOK = TRUE
    /\ live = {}
    /\ txn = None
    /\ appended = <<>>
    /\ col = InitCol
    /\ simLog \in UNION {[1..n -> SimSamples] : n \in 0..MaxSimRows}
    /\ sim = LoadAll(simLog)
    /\ req = [r \in ReqIds |-> IdleReq]

NextSim ==
    \/ \E r \in ReqIds : ReqExecute(r, SimQueries)
    \/ \E r \in ReqIds : ReqRespond(r)

SpecSim == InitSim /\ [][NextSim]_vars

\* =================================================================
\* Claims
\* =================================================================

\* Rows a and b of the live table were appended one right after the other.
Consecutive(a, b) == b.id = a.id + 1

\* C1: within one run of collector_thread the energy_Wh_cum of consecutive
\* persisted samples never decreases, whatever the sensors and the clock
\* return.
C1_EnergyNonDecreasing ==
    \A a \in live, b \in live :
        Consecutive(a, b) => b.energy_Wh_cum[1] >= a.energy_Wh_cum[1]

\* The six conditions of the battery-discharge model, as the claim lists them,
\* on the arguments of the estimate_power call that has just returned.
C2_BatterySelected ==
    /\ col.batt # None
    /\ ~col.batt[1].power_plugged
    /\ col.last_batt_percent # None
    /\ col.last_ts # None
    /\ col.batt[1].percent < col.last_batt_percent[1]
    /\ col.now - col.last_ts[1] > 0

\* C2: estimate_power returns the battery-discharge estimate if and only if
\* a battery is present, it is not plugged, a previous percent and a previous
\* timestamp are known, the percent fell and dt_h > 0; in every other case
\* it returns the linear-model value.
C2_ModelSelection ==
    col.pc = "integrate" =>
        col.power_W =
            IF C2_BatterySelected
            THEN (BATTERY_WH_CAPACITY
                     * (col.last_batt_percent[1] - col.batt[1].percent)
                     * TicksPerHour) \div (col.now - col.last_ts[1])
            ELSE 100 * BASE_POWER_W + CPU_POWER_COEFF_x100 * col.cpu_util
                     + BRIGHTNESS_POWER_COEFF_x100 * col.brightness

\* A call of estimate_power that took the battery-discharge model, with a
\* value other than the linear one.
C2_Witness ==
    /\ col.pc = "integrate"
    /\ C2_BatterySelected
    /\ col.power_W # PowerLinear(col.cpu_util, col.brightness)

\* C3: a failed INSERT or commit does not end the collector loop.
C3_LoopSurvivesWriteFailure == col.pc # "crashed"

\* C6: in the live store every appended sample's timestamp is strictly
\* greater than that of the sample appended just before it.
C6_TimestampsStrictlyIncrease ==
    \A a \in live, b \in live :
        Consecutive(a, b) => b.timestamp > a.timestamp

\* Request r has returned its response.
Done(r) == req[r].pc = "done"
\* Request r has returned the summary of a window it fetched.
SummaryDone(r) ==
    /\ Done(r)
    /\ req[r].endpoint = "summary"
    /\ req[r].fetched

\* The energy of a window as the claim words it: last minus first for more
\* than one sample, the sample's own value for one; NULL counts as 0.
WindowEnergy(rows) ==
    IF Len(rows) > 1
    THEN OrZero(rows[Len(rows)].energy_Wh_cum) - OrZero(rows[1].energy_Wh_cum)
    ELSE OrZero(rows[1].energy_Wh_cum)

\* C4 as stated: for a non-empty window the summary's energy_Wh is the last
\* sample's cumulative energy minus the first's (more than one sample), or
\* the single sample's cumulative energy itself.
C4_SummaryEnergyExact ==
    \A r \in ReqIds :
        SummaryDone(r) /\ req[r].rows # <<>> =>
            req[r].response.body.energy_Wh * (EnergyPerWh \div 100)
                = WindowEnergy(req[r].rows)

\* C4 as amended: the summary's energy_Wh is that value rounded to two
\* decimals.
C4_SummaryEnergyRounded ==
    \A r \in ReqIds :
        SummaryDone(r) /\ req[r].rows # <<>> =>
            req[r].response.body.energy_Wh
                = RoundDiv(WindowEnergy(req[r].rows), EnergyPerWh \div 100)

\* The summary of a window of exactly one sample, which is not zero.
C4_Witness ==
    \E r \in ReqIds :
        /\ SummaryDone(r)
        /\ Len(req[r].rows) = 1
        /\ req[r].response.body.energy_Wh > 0

\* C5: the summary of an empty window is no error but the object of four
\* zeros, in live and in sim mode.
C5_EmptySummaryIsZero ==
    \A r \in ReqIds :
        SummaryDone(r) /\ req[r].rows = <<>> =>
            /\ req[r].response.status = 200
            /\ req[r].response.body.energy_Wh = 0
            /\ req[r].response.body.avg_power_W = 0
            /\ req[r].response.body.avg_cpu = 0
            /\ req[r].response.body.co2_kg = 0

\* A live summary whose window is empty although the store holds samples.
C5_Witness ==
    \E r \in ReqIds :
        /\ SummaryDone(r)
        /\ req[r].mode = "live"
        /\ req[r].rows = <<>>
        /\ live # {}

\* a is b with some of its elements left out, the order kept.
RECURSIVE IsSubsequence(_, _)
IsSubsequence(a, b) ==
    IF a = <<>> THEN TRUE
    ELSE IF b = <<>> THEN FALSE
    ELSE \/ Head(a) = Head(b) /\ IsSubsequence(Tail(a), Tail(b))
         \/ IsSubsequence(a, Tail(b))

\* C7: a live query that runs beside the collector's INSERT and commit
\* returns whole committed samples only, each as it was appended, in append
\* order, none twice.
C7_ReadsCommittedInAppendOrder ==
    \A r \in ReqIds :
        req[r].pc \in {"fetch", "done"} /\ req[r].mode = "live" /\ req[r].fetched =>
            IsSubsequence(req[r].rows, appended)

\* C8: requests never stop or block the collector, nor it them: every
\* iteration that has started persists its sample, and every request returns.
C8_NoMutualBlocking ==
    /\ (col.pc = "sense") ~> (col.pc = "sleep")
    /\ \A r \in ReqIds : (req[r].pc = "fetch") ~> (req[r].pc = "done")

\* C9: after N samples were appended to a store, the query "all rows,
\* insertion order" returns exactly those N samples in the order of their
\* appends.
C9_RoundTrip ==
    \A r \in ReqIds :
        req[r].pc \in {"fetch", "done"} /\ req[r].mode # "live" =>
            req[r].rows = simLog

\* A full-dataset query that returned two or more samples whose timestamps
\* do not ascend.
C9_Witness ==
    \E r \in ReqIds :
        /\ Done(r)
        /\ req[r].mode # "live"
        /\ Len(req[r].rows) >= 2
        /\ req[r].rows[1].timestamp > req[r].rows[2].timestamp

\* C10: whatever mode and minutes are, the request does not fail: the caller
\* receives a well-formed result.
C10_RequestsNeverFail ==
    \A r \in ReqIds : Done(r) => req[r].response.status = 200

\* C11: the power_W of every persisted sample is non-negative; the value a
\* call of estimate_power returns is at least BASE_POWER_W when the linear
\* model produced it and greater than 0 when the battery-discharge model did.
C11_PowerNonNegative ==
    /\ \A r \in live : r.power_W # None /\ r.power_W[1] >= 0
    /\ col.pc = "integrate" =>
          IF C2_BatterySelected
          THEN col.power_W > 0
          ELSE col.power_W >= 100 * BASE_POWER_W

\* A persisted sample whose power_W came from the battery-discharge model.
C11_Witness ==
    \E r \in live :
        /\ r.battery_percent # None
        /\ r.power_W[1] # PowerLinear(r.cpu_util[1], r.brightness[1])

\* C12: the live store is append-only: a step changes it only by the
\* collector's commit adding one new row, and every row already persisted is
\* left as it is by every later collector step and by every request.
C12_AppendOnly ==
    [][/\ live \subseteq live'
       /\ live' # live =>
             /\ col.pc = "commit"
             /\ Cardinality(live' \ live) = 1]_vars

\* Two iterations have persisted their samples and a request has read the
\* live store.
C12_Witness ==
    /\ Cardinality(live) >= 2
    /\ \E r \in ReqIds :
          Done(r) /\ req[r].mode = "live" /\ req[r].fetched /\ req[r].rows # <<>>

\* The step runs request r's query: the handler reads its arguments and calls
\* fetch_samples.
Executes(r) == req[r].pc \in {"idle", "done"} /\ req'[r] # req[r]

\* The live rows whose timestamp (to the second) is not before now minus
\* minutes.
InWindow(minutes, now) ==
    {x \in live : x.timestamp >= IsoSeconds(now) - 60 * minutes}

\* C13: with mode "live" the query's result is exactly the live samples whose
\* timestamp is >= now minus minutes, in ascending timestamp order; with any
\* other mode it is the entire fixed dataset in row id order, whatever
\* minutes is.
C13_ModeSelection ==
    [][\A r \in ReqIds :
         Executes(r) =>
            /\ req'[r].fetched
            /\ LET rows == req'[r].rows
               IN  IF req'[r].mode = "live"
                   THEN LET window == InWindow(req'[r].minutes, wall)
                        IN  /\ Len(rows) = Cardinality(window)
                            /\ {rows[i] : i \in 1..Len(rows)}
                                  = {Columns(x) : x \in window}
                            /\ \A i \in 1..Len(rows), j \in 1..Len(rows) :
                                  i < j => rows[i].timestamp <= rows[j].timestamp
                   ELSE rows = OrderById(sim)]_vars

\* The cumulative energies (Wh) of the example: 100, 150, 230.
ExampleEnergies(rows) ==
    /\ Len(rows) = 3
    /\ rows[1].energy_Wh_cum = Some(Wh(100))
    /\ rows[2].energy_Wh_cum = Some(Wh(150))
    /\ rows[3].energy_Wh_cum = Some(Wh(230))

\* C14 as stated: the summary's co2_kg equals (energy_Wh / 1000) * 0.7, where
\* energy_Wh is the window's energy.
C14_Co2Exact ==
    \A r \in ReqIds :
        SummaryDone(r) /\ req[r].rows # <<>> =>
            req[r].response.body.co2_kg * 10 * EnergyPerWh
                = CO2_PER_KWH_KG_x10 * WindowEnergy(req[r].rows)

\* C14 as amended: the summary's co2_kg is (energy_Wh / 1000) * 0.7 rounded
\* to three decimals, energy_Wh being the window's energy before it is
\* rounded; cumulative energies 100, 150, 230 Wh give energy_Wh = 130.0 and
\* co2_kg = 0.091.
C14_Co2Rounded ==
    \A r \in ReqIds :
        SummaryDone(r) /\ req[r].rows # <<>> =>
            /\ req[r].response.body.co2_kg
                  = RoundDiv(CO2_PER_KWH_KG_x10 * WindowEnergy(req[r].rows),
                             10 * EnergyPerWh)
            /\ ExampleEnergies(req[r].rows) =>
                  /\ req[r].response.body.energy_Wh = 13000
                  /\ req[r].response.body.co2_kg = 91

\* The summary of the example's three samples.
C14_Witness ==
    \E r \in ReqIds : SummaryDone(r) /\ ExampleEnergies(req[r].rows)

\* The step is the end of an iteration: line 136 and the sleep.
EndsIteration == col.pc = "sleep" /\ col'.pc = "start"

\* C15 as stated: at the end of each iteration last_ts is this iteration's
\* time, and last_batt_percent is the current battery percent when a battery
\* is present and is left unchanged when the battery is absent.
C15_CarriedStateKept ==
    [][EndsIteration =>
          /\ col'.last_ts = Some(col.now_ts)
          /\ col'.last_batt_percent =
                IF col.batt # None THEN Some(col.batt[1].percent)
                ELSE col.last_batt_percent]_vars

\* C15 as amended: at the end of each iteration last_ts is this iteration's
\* time, and last_batt_percent is the current battery percent when a battery
\* is present and None when the battery is absent.
C15_CarriedStateReset ==
    [][EndsIteration =>
          /\ col'.last_ts = Some(col.now_ts)
          /\ col'.last_batt_percent =
                IF col.batt # None THEN Some(col.batt[1].percent)
                ELSE None]_vars

\* An iteration that found no battery has ended after one that found one.
C15_Witness ==
    /\ col.pc = "start"
    /\ Len(appended) = 2
    /\ appended[1].battery_percent # None
    /\ appended[2].battery_percent = None
    /\ col.last_batt_percent = None
    /\ col.last_ts # None

\* The step is the integration of an iteration: lines 123-126.
Integrates == col.pc = "integrate" /\ col'.pc = "insert"

\* C16: a run starts with cumulative energy 0 and persists its first sample
\* with energy_Wh_cum = 0; in every iteration, when a previous timestamp is
\* set, whatever its value, and power_W >= 0, the cumulative energy grows by
\* exactly power_W * (now - previous timestamp) / 3600, and otherwise it is
\* unchanged.
C16_IntegrationStep ==
    [][/\ col.iter = 0 => col.energy_cum_Wh = 0
       /\ col.iter = 1 /\ col.pc = "commit" => txn[1].energy_Wh_cum = Some(0)
       /\ Integrates =>
             col'.energy_cum_Wh =
                IF col.last_ts # None /\ col.power_W >= 0
                THEN col.energy_cum_Wh
                        + col.power_W * (col'.now_ts - col.last_ts[1])
                ELSE col.energy_cum_Wh]_vars

\* The step is the start of an iteration after the first: line 112.
StartsAgain == col.pc = "start" /\ col'.pc = "sense" /\ col.iter >= 1

\* C17: at the end of each iteration the collector sleeps
\* max(0, SAMPLE_INTERVAL - time elapsed since the iteration started), never
\* a negative time, and the start times of two consecutive iterations are at
\* least SAMPLE_INTERVAL apart, however long the iteration's work took.
C17_Cadence ==
    [][/\ EndsIteration =>
             /\ wall' - wall = Max(0, SAMPLE_INTERVAL_TICKS - (wall - col.start))
             /\ wall' - wall >= 0
       /\ StartsAgain => col'.start - col.start >= SAMPLE_INTERVAL_TICKS]_vars

\* The index in appended of the sample of the iteration before the current
\* one (before the next one, when none is running).
PrevIter == IF col.pc = "start" THEN col.iter ELSE col.iter - 1

\* The iteration before the current one read a present battery.
PrevBatteryPresent ==
    PrevIter >= 1 /\ appended[PrevIter].battery_percent # None

\* C18: last_batt_percent is non-null only if the immediately preceding
\* iteration read a present battery, and is then that iteration's percent;
\* it and last_ts are set together, from one iteration; so the first
\* iteration that finds a battery after an iteration that found none takes
\* the linear model.
C18_BatteryHistoryIsPrevious ==
    [][/\ col.pc # "sleep" =>
             /\ col.last_batt_percent # None => PrevBatteryPresent
             /\ PrevBatteryPresent =>
                   col.last_batt_percent = appended[PrevIter].battery_percent
       /\ col'.last_batt_percent # col.last_batt_percent
             \/ col'.last_ts # col.last_ts =>
             /\ EndsIteration
             /\ col'.last_batt_percent = col.batt_percent
             /\ col'.last_ts = Some(col.now_ts)
       /\ col.pc = "integrate" /\ col.batt # None /\ ~PrevBatteryPresent =>
             col.power_W = PowerLinear(col.cpu_util, col.brightness)]_vars

\* A battery at 80 %, then none, then the battery again, discharging at 78 %:
\* the third iteration has taken the linear model.
C18_Witness ==
    /\ col.pc = "integrate"
    /\ col.iter = 3
    /\ appended[1].battery_percent = Some(80)
    /\ appended[2].battery_percent = None
    /\ col.batt = Some([percent |-> 78, power_plugged |-> FALSE])
    /\ col.power_W = PowerLinear(col.cpu_util, col.brightness)

\* C19: the summary's energy_Wh and co2_kg are >= 0 for every window of the
\* live store, whatever number of collector runs wrote the window's rows.
C19_SummaryEnergyNonNegative ==
    \A r \in ReqIds :
        SummaryDone(r) /\ req[r].mode = "live" =>
            /\ req[r].response.body.energy_Wh >= 0
            /\ req[r].response.body.co2_kg >= 0

====
